---- MODULE Spec2Model ----
(***************************************************************************)
(* A model of src/src/main.rs: the entry point `main`, the function lister *)
(* `get_deployed_lambdas_list` driven by the provider's paginated item     *)
(* stream, and the version fetcher `fetch_packagejson_details` with its    *)
(* helper `get_packagejson`.                                               *)
(*                                                                         *)
(* Spec      : a run of `main` (which calls the lister).                   *)
(* SpecFetch : a call of `fetch_packagejson_details` (its call in `main`   *)
(*             is commented out, so it is modelled as a call of its own).  *)
(***************************************************************************)
EXTENDS Integers, Sequences, FiniteSets, TLC

\* The provider answers at most MaxPages list-functions requests with a page.
MaxPages == 3
\* The account holds at most MaxFunctions functions over all its pages.
MaxFunctions == 2

VARIABLES
    env_token,        \* the state of the environment variable MY_TOKEN
    main_pc,          \* where `main` is
    exit_code,        \* the process's exit status, NoExit while it runs
    stdout,           \* lines printed with println!
    stderr,           \* lines printed with eprintln!, a panic or a returned Err
    net,              \* every network activity of the process, in order
    pc,               \* where get_deployed_lambdas_list is
    function_deets,   \* its accumulating Vec<Lambda>
    tasks,            \* the futures collected for the current stream item
    running,          \* the futures being awaited
    results,          \* the Vec the awaited futures' values are pushed on
    ret,              \* what get_deployed_lambdas_list returned
    token,            \* the paginator's continuation marker for its next request
    stream_buf,       \* items the stream holds and has not yielded yet
    stream_done,      \* the paginator will issue no further request
    served,           \* the provider's responses so far, one per request
    f_pc,             \* where fetch_packagejson_details is
    built,            \* whether Octocrab's builder produced a client
    repo_idx,         \* index of the repository the loop is at
    package_json,     \* what get_packagejson returned for that repository
    package_json_details, \* the accumulating HashMap<String, Value>
    responses,        \* the hosting API's responses so far, one per repository
    f_token,          \* the token fetch_packagejson_details was called with
    f_ret             \* what fetch_packagejson_details returned

vars == << env_token, main_pc, exit_code, stdout, stderr, net, pc, function_deets,
           tasks, running, results, ret, token, stream_buf, stream_done, served,
           f_pc, built, repo_idx, package_json, package_json_details, responses,
           f_token, f_ret >>

main_vars == << env_token, main_pc, exit_code, stderr >>
lister_vars == << pc, function_deets, tasks, running, results, ret, token,
                  stream_buf, stream_done, served >>
fetch_vars == << f_pc, built, repo_idx, package_json, package_json_details,
                 responses, f_token, f_ret >>

-----------------------------------------------------------------------------
\* Option<T> and Result<T, E>

None == [some |-> FALSE]
Some(v) == [some |-> TRUE, val |-> v]
Ok(v) == [ok |-> TRUE, val |-> v]
Err(e) == [ok |-> FALSE, err |-> e]

\* The process has not exited.
NoExit == -1

-----------------------------------------------------------------------------
\* The provider's function descriptors (FunctionConfiguration): every field the
\* lister reads is optional.

NoVars == [k \in {} |-> ""]
SomeVars == [k \in {"STAGE"} |-> "prod"]

Environments ==
    { None, Some([variables |-> None]), Some([variables |-> Some(NoVars)]),
      Some([variables |-> Some(SomeVars)]) }

Descriptors ==
    [ function_name : {None, Some("scraper-handler")},
      function_arn : {None, Some("arn:aws:lambda:scraper-handler")},
      environment : Environments ]

RECURSIVE SeqsOf(_, _)
\* The sequences over S of length at most n.
SeqsOf(S, n) ==
    IF n = 0 THEN { <<>> }
    ELSE LET shorter == SeqsOf(S, n - 1)
         IN  shorter \cup { Append(s, x) : s \in { t \in shorter : Len(t) = n - 1 }, x \in S }

RECURSIVE FlatLen(_)
\* The number of descriptors in a sequence of provider responses.
FlatLen(rs) ==
    IF rs = <<>> THEN 0
    ELSE (IF Head(rs).ok THEN Len(Head(rs).val.functions) ELSE 0) + FlatLen(Tail(rs))

\* What the provider may answer to the next list-functions request: an error,
\* or a page of descriptors with or without a continuation marker.
ProviderResponses ==
    { Err("ServiceException") } \cup
    { Ok([functions |-> fs, next_marker |-> m]) :
        fs \in SeqsOf(Descriptors, MaxFunctions - FlatLen(served)),
        m \in { None } \cup
              (IF Len(served) + 1 < MaxPages THEN { Some(Len(served) + 1) } ELSE {}) }

-----------------------------------------------------------------------------
\* get_deployed_lambdas_list

\* Result::into_iter: the Ok value, or nothing for an Err.
ResultIntoIter(r) == IF r.ok THEN << r.val >> ELSE << >>

\* The filter of the filter_map closure.
HasEnvironment(func) == func.environment.some

\* The descriptors a future is built for.
FilterMap(funcs) == SelectSeq(funcs, HasEnvironment)

\* Whether every unwrap() of the async block succeeds.
Unwraps(func) ==
    /\ func.function_name.some
    /\ func.environment.some
    /\ func.environment.val.variables.some

\* The Lambda the async block builds.
ToLambda(func) ==
    [ name |-> func.function_name.val,
      env_vars |-> func.environment.val.variables.val,
      arn |-> IF func.function_arn.some THEN func.function_arn.val ELSE "" ]

\* The paginator sends a request and the provider answers it. The items of a
\* page are yielded one by one as Ok items; an error is yielded as one Err item,
\* after which the stream ends. A page without a marker is the last request.
PaginatorSend ==
    /\ pc = "next"
    /\ stream_buf = << >>
    /\ ~stream_done
    /\ \E resp \in ProviderResponses :
        /\ net' = Append(net, [kind |-> "list_functions", marker |-> token])
        /\ served' = Append(served, resp)
        /\ IF resp.ok
           THEN /\ stream_buf' = [i \in 1..Len(resp.val.functions) |-> Ok(resp.val.functions[i])]
                /\ token' = resp.val.next_marker
                /\ stream_done' = ~resp.val.next_marker.some
           ELSE /\ stream_buf' = << Err(resp.err) >>
                /\ token' = token
                /\ stream_done' = TRUE
    /\ UNCHANGED << main_vars, stdout, pc, function_deets, tasks, running, results, ret,
                    fetch_vars >>

\* next() yields an item: the loop body collects its futures.
StreamNext ==
    /\ pc = "next"
    /\ stream_buf # << >>
    /\ tasks' = FilterMap(ResultIntoIter(Head(stream_buf)))
    /\ results' = << >>
    /\ stream_buf' = Tail(stream_buf)
    /\ pc' = "run"
    /\ UNCHANGED << main_vars, stdout, net, function_deets, running, ret, token,
                    stream_done, served, fetch_vars >>

\* The for loop takes the next future and awaits it.
TaskStart ==
    /\ pc = "run"
    /\ running = << >>
    /\ tasks # << >>
    /\ running' = << Head(tasks) >>
    /\ tasks' = Tail(tasks)
    /\ UNCHANGED << main_vars, stdout, net, pc, function_deets, results, ret, token,
                    stream_buf, stream_done, served, fetch_vars >>

\* The awaited future completes and its Lambda is pushed, or an unwrap() panics
\* and the panic ends the process.
TaskFinish ==
    /\ pc = "run"
    /\ running # << >>
    /\ running' = << >>
    /\ IF Unwraps(Head(running))
       THEN /\ results' = Append(results, ToLambda(Head(running)))
            /\ UNCHANGED << pc, main_pc, exit_code, stderr >>
       ELSE /\ pc' = "panicked"
            /\ main_pc' = "exited"
            /\ exit_code' = 101
            /\ stderr' = Append(stderr, "panicked: called Option::unwrap() on a None value")
            /\ UNCHANGED results
    /\ UNCHANGED << env_token, stdout, net, function_deets, tasks, ret, token, stream_buf,
                    stream_done, served, fetch_vars >>

\* Extend with the collection overwritten by the current results.
ExtendOverwrite ==
    /\ pc = "run"
    /\ running = << >>
    /\ tasks = << >>
    /\ function_deets' = results
    /\ pc' = "next"
    /\ UNCHANGED << main_vars, stdout, net, tasks, running, results, ret, token,
                    stream_buf, stream_done, served, fetch_vars >>

\* Extend with the current results put in front of the collection.
ExtendPrepend ==
    /\ pc = "run"
    /\ running = << >>
    /\ tasks = << >>
    /\ function_deets' = results \o function_deets
    /\ pc' = "next"
    /\ UNCHANGED << main_vars, stdout, net, tasks, running, results, ret, token,
                    stream_buf, stream_done, served, fetch_vars >>

\* function_deets.extend(results), and back to the head of the loop.
Extend ==
    /\ pc = "run"
    /\ running = << >>
    /\ tasks = << >>
    /\ function_deets' = function_deets \o results
    /\ pc' = "next"
    /\ UNCHANGED << main_vars, stdout, net, tasks, running, results, ret, token,
                    stream_buf, stream_done, served, fetch_vars >>

\* next() yields None: the loop ends and the lister returns Ok(function_deets).
StreamEnd ==
    /\ pc = "next"
    /\ stream_buf = << >>
    /\ stream_done
    /\ ret' = Ok(function_deets)
    /\ pc' = "done"
    /\ UNCHANGED << main_vars, stdout, net, function_deets, tasks, running, results,
                    token, stream_buf, stream_done, served, fetch_vars >>

-----------------------------------------------------------------------------
\* main

\* MainReadToken with a missing variable read as the empty token.
MainReadTokenOrDefault ==
    /\ main_pc = "start"
    /\ main_pc' = "load_config"
    /\ UNCHANGED << env_token, exit_code, stdout, stderr, net, lister_vars, fetch_vars >>

\* env::var("MY_TOKEN").unwrap_or_else(..): exit(1) unless the variable is set.
MainReadToken ==
    /\ main_pc = "start"
    /\ IF env_token = "present"
       THEN /\ main_pc' = "load_config"
            /\ UNCHANGED << stderr, exit_code >>
       ELSE /\ stderr' = Append(stderr, "MY_TOKEN environment variable not set")
            /\ exit_code' = 1
            /\ main_pc' = "exited"
    /\ UNCHANGED << env_token, stdout, net, lister_vars, fetch_vars >>

\* aws_config::load_from_env(), Client::new, Instant::now.
MainLoadConfig ==
    /\ main_pc = "load_config"
    /\ net' = Append(net, [kind |-> "load_config"])
    /\ main_pc' = "call_lister"
    /\ UNCHANGED << env_token, exit_code, stdout, stderr, lister_vars, fetch_vars >>

\* get_deployed_lambdas_list(&aws_client) is called: its locals are set up.
MainCallLister ==
    /\ main_pc = "call_lister"
    /\ main_pc' = "await_lister"
    /\ pc' = "next"
    /\ function_deets' = << >>
    /\ token' = None
    /\ stream_buf' = << >>
    /\ stream_done' = FALSE
    /\ UNCHANGED << env_token, exit_code, stdout, stderr, net, tasks, running, results,
                    ret, served, fetch_vars >>

\* `.await?` on the lister's result, the two println!, and Ok(()).
MainAfterLister ==
    /\ main_pc = "await_lister"
    /\ pc = "done"
    /\ main_pc' = "exited"
    /\ IF ret.ok
       THEN /\ stdout' = stdout \o << [line |-> "Got lambdas in"],
                                      [line |-> "Deployed lambdas:", value |-> ret.val] >>
            /\ exit_code' = 0
            /\ UNCHANGED stderr
       ELSE /\ stderr' = Append(stderr, ret.err)
            /\ exit_code' = 1
            /\ UNCHANGED stdout
    /\ UNCHANGED << env_token, net, lister_vars, fetch_vars >>

FetchIdle ==
    /\ f_pc = "idle"
    /\ built = FALSE
    /\ repo_idx = 1
    /\ package_json = None
    /\ package_json_details = NoVars
    /\ responses = << >>
    /\ f_token = ""
    /\ f_ret = None

ListerIdle ==
    /\ pc = "idle"
    /\ function_deets = << >>
    /\ tasks = << >>
    /\ running = << >>
    /\ results = << >>
    /\ ret = None
    /\ token = None
    /\ stream_buf = << >>
    /\ stream_done = FALSE
    /\ served = << >>

Init ==
    /\ env_token \in { "absent", "not_unicode", "present" }
    /\ main_pc = "start"
    /\ exit_code = NoExit
    /\ stdout = << >>
    /\ stderr = << >>
    /\ net = << >>
    /\ ListerIdle
    /\ FetchIdle

Next ==
    \/ MainReadToken
    \/ MainLoadConfig
    \/ MainCallLister
    \/ PaginatorSend
    \/ StreamNext
    \/ TaskStart
    \/ TaskFinish
    \/ Extend
    \/ StreamEnd
    \/ MainAfterLister

Spec == Init /\ [][Next]_vars

-----------------------------------------------------------------------------
\* fetch_packagejson_details and get_packagejson

\* The fixed list of repositories.
Repositories ==
    << "Scotski", "scraper", "standen-node", "now-github-starter", "movies-front" >>

\* Token values the function is called with.
Tokens == { "", "ghp_token" }

\* File texts the hosting API may hold for package.json.
Texts ==
    { "not json",
      "{\"name\":\"app\"}",
      "{\"version\":\"1.2.0\"}",
      "{\"name\":\"app\",\"version\":\"0.0.1\"}" }

\* serde_json::from_str::<HashMap<String, Value>> on those texts.
ParseJson(text) ==
    CASE text = "{\"name\":\"app\"}" -> Ok([k \in {"name"} |-> "app"])
      [] text = "{\"version\":\"1.2.0\"}" -> Ok([k \in {"version"} |-> "1.2.0"])
      [] text = "{\"name\":\"app\",\"version\":\"0.0.1\"}" ->
            Ok([k \in {"name", "version"} |-> IF k = "name" THEN "app" ELSE "0.0.1"])
      [] OTHER -> Err("expected value at line 1 column 1")

\* A content item: its file bytes in the transport encoding, when it carries any.
Items ==
    { [content |-> None] } \cup
    { [content |-> Some([encoding |-> "base64", text |-> t])] : t \in Texts }

\* Content::decoded_content: the text of the item's content, when it has one.
DecodedContent(item) ==
    IF item.content.some THEN Some(item.content.val.text) ELSE None

\* What the hosting API may answer to a get_content request: a failure, or a
\* list of content items.
ContentResponses ==
    { Err("network error") } \cup
    { Ok([items |-> its]) : its \in SeqsOf(Items, 1) } \cup
    { Ok([items |-> << [content |-> Some([encoding |-> "base64",
                                          text |-> "{\"version\":\"1.2.0\"}"])],
                       [content |-> Some([encoding |-> "base64", text |-> "not json"])] >>]) }

\* get_packagejson's result for a response to its request.
PackageJsonOf(resp) ==
    IF ~resp.ok THEN Err("Failed to get package.json content")
    ELSE IF resp.val.items = << >> THEN Err("Package JSON content not found")
    ELSE LET decoded == DecodedContent(Head(resp.val.items))
         IN  IF ~decoded.some THEN Err("Failed to decode package JSON content")
             ELSE LET parsed == ParseJson(decoded.val)
                  IN  IF parsed.ok THEN parsed ELSE Err("Failed to parse package.json")

\* HashMap::insert.
Insert(map, key, value) ==
    [k \in DOMAIN map \cup {key} |-> IF k = key THEN value ELSE map[k]]

\* Octocrab::builder().personal_token(token).build()?, and the locals.
FetchBuild ==
    /\ f_pc = "build"
    /\ \E ok \in BOOLEAN :
        /\ built' = ok
        /\ IF ok
           THEN /\ f_pc' = "loop"
                /\ UNCHANGED f_ret
           ELSE /\ f_pc' = "returned"
                /\ f_ret' = Err("build")
    /\ repo_idx' = 1
    /\ package_json_details' = NoVars
    /\ UNCHANGED << main_vars, stdout, net, lister_vars, package_json, responses, f_token >>

\* get_packagejson(octocrab.clone(), repo).await for the next repository.
GetPackageJson ==
    /\ f_pc = "loop"
    /\ repo_idx <= Len(Repositories)
    /\ \E resp \in ContentResponses :
        /\ net' = Append(net, [kind |-> "get_content", repo |-> Repositories[repo_idx],
                                path |-> "package.json", auth |-> f_token])
        /\ responses' = Append(responses, resp)
        /\ package_json' = PackageJsonOf(resp)
    /\ f_pc' = "match"
    /\ UNCHANGED << main_vars, stdout, lister_vars, built, repo_idx, package_json_details,
                    f_token, f_ret >>

\* HandlePackageJson with the failure returned to the caller, as `?` would.
HandlePackageJsonPropagating ==
    /\ f_pc = "match"
    /\ IF ~package_json.ok
       THEN /\ f_ret' = package_json
            /\ f_pc' = "returned"
            /\ UNCHANGED << package_json_details, repo_idx >>
       ELSE /\ package_json_details' =
                  IF "version" \in DOMAIN package_json.val
                  THEN Insert(package_json_details, Repositories[repo_idx],
                              package_json.val["version"])
                  ELSE package_json_details
            /\ repo_idx' = repo_idx + 1
            /\ f_pc' = "loop"
            /\ UNCHANGED f_ret
    /\ UNCHANGED << main_vars, stdout, net, lister_vars, built, package_json, responses,
                    f_token >>

\* HandlePackageJson with a diagnostic printed for a missing `version` too.
HandlePackageJsonLoggingMissingVersion ==
    /\ f_pc = "match"
    /\ IF ~package_json.ok
       THEN /\ stdout' = Append(stdout, [line |-> "Failed to get package.json for repo",
                                         repo |-> Repositories[repo_idx],
                                         err |-> package_json.err])
            /\ UNCHANGED package_json_details
       ELSE IF "version" \in DOMAIN package_json.val
       THEN /\ package_json_details' =
                  Insert(package_json_details, Repositories[repo_idx],
                         package_json.val["version"])
            /\ UNCHANGED stdout
       ELSE /\ stdout' = Append(stdout, [line |-> "No version in package.json for repo",
                                         repo |-> Repositories[repo_idx],
                                         err |-> "missing version"])
            /\ UNCHANGED package_json_details
    /\ repo_idx' = repo_idx + 1
    /\ f_pc' = "loop"
    /\ UNCHANGED << main_vars, net, lister_vars, built, package_json, responses, f_token,
                    f_ret >>

\* The rest of the loop body: the match on the result and the `version` lookup.
HandlePackageJson ==
    /\ f_pc = "match"
    /\ IF ~package_json.ok
       THEN /\ stdout' = Append(stdout, [line |-> "Failed to get package.json for repo",
                                         repo |-> Repositories[repo_idx],
                                         err |-> package_json.err])
            /\ UNCHANGED package_json_details
       ELSE /\ package_json_details' =
                  IF "version" \in DOMAIN package_json.val
                  THEN Insert(package_json_details, Repositories[repo_idx],
                              package_json.val["version"])
                  ELSE package_json_details
            /\ UNCHANGED stdout
    /\ repo_idx' = repo_idx + 1
    /\ f_pc' = "loop"
    /\ UNCHANGED << main_vars, net, lister_vars, built, package_json, responses, f_token,
                    f_ret >>

\* The loop is over: Ok(package_json_details).
FetchReturn ==
    /\ f_pc = "loop"
    /\ repo_idx > Len(Repositories)
    /\ f_ret' = Ok(package_json_details)
    /\ f_pc' = "returned"
    /\ UNCHANGED << main_vars, stdout, net, lister_vars, built, repo_idx, package_json,
                    package_json_details, responses, f_token >>

InitFetch ==
    /\ env_token = "present"
    /\ main_pc = "not_running"
    /\ exit_code = NoExit
    /\ stdout = << >>
    /\ stderr = << >>
    /\ net = << >>
    /\ ListerIdle
    /\ f_pc = "build"
    /\ built = FALSE
    /\ repo_idx = 1
    /\ package_json = None
    /\ package_json_details = NoVars
    /\ responses = << >>
    /\ f_token \in Tokens
    /\ f_ret = None

NextFetch ==
    \/ FetchBuild
    \/ GetPackageJson
    \/ HandlePackageJson
    \/ FetchReturn

SpecFetch == InitFetch /\ [][NextFetch]_vars

-----------------------------------------------------------------------------
\* Vocabulary of the properties

RECURSIVE Flatten(_)
\* The descriptors of the pages served so far, in provider order.
Flatten(rs) ==
    IF rs = << >> THEN << >>
    ELSE (IF Head(rs).ok THEN Head(rs).val.functions ELSE << >>) \o Flatten(Tail(rs))

\* Some list-functions request was answered with an error.
HasProviderError == \E k \in DOMAIN served : ~served[k].ok

\* The list-functions requests issued so far.
IsListRequest(n) == n.kind = "list_functions"
ListRequests == SelectSeq(net, IsListRequest)

IsPrefix(s, t) == Len(s) <= Len(t) /\ \A i \in DOMAIN s : s[i] = t[i]

\* How many times r occurs in the sequence s.
Count(s, r) == Cardinality({ i \in DOMAIN s : s[i] = r })

\* A descriptor has an environment-variable configuration.
Retained(d) == d.environment.some

\* The record the specification describes for a retained descriptor whose
\* name and variable mapping are present.
RecordOf(d) ==
    [ name |-> d.function_name.val,
      env_vars |-> d.environment.val.variables.val,
      arn |-> IF d.function_arn = None THEN "" ELSE d.function_arn.val ]

Convertible(d) == d.function_name # None /\ d.environment.val.variables # None

RECURSIVE RecordsInOrder(_)
\* The records of the retained descriptors of ds, in order, up to the first
\* retained descriptor that has no name or no variable mapping.
RecordsInOrder(ds) ==
    IF ds = << >> THEN << >>
    ELSE IF ~Retained(Head(ds)) THEN RecordsInOrder(Tail(ds))
    ELSE IF ~Convertible(Head(ds)) THEN << >>
    ELSE << RecordOf(Head(ds)) >> \o RecordsInOrder(Tail(ds))

-----------------------------------------------------------------------------
\* C1: if the provider's list-functions call returns an error on some page, the
\* lister's result is that error: it never returns Ok (with the records of the
\* earlier pages) after a provider error.
C1_ProviderErrorIsReturned ==
    (pc = "done" /\ HasProviderError) =>
        (~ret.ok /\ \E k \in DOMAIN served : served[k] = ret)

\* C2: over error-free pages, the returned collection holds exactly one record
\* for each descriptor, on any page, that has an environment configuration and
\* none for a descriptor without one: nothing is added, duplicated or lost.
C2_ResultIsRetainedDescriptors ==
    (pc = "done" /\ ~HasProviderError) =>
        /\ ret.ok
        /\ LET flat == Flatten(served)
               kept == { i \in DOMAIN flat : Retained(flat[i]) }
           IN  /\ Len(ret.val) = Cardinality(kept)
               /\ \A r \in { ret.val[j] : j \in DOMAIN ret.val } \cup
                           { RecordOf(flat[i]) : i \in kept } :
                     Count(ret.val, r) =
                        Cardinality({ i \in kept : RecordOf(flat[i]) = r })

\* C2's case: two pages, a retained descriptor on one and a dropped one on another.
C2_Witness ==
    /\ pc = "done"
    /\ ~HasProviderError
    /\ Len(served) >= 2
    /\ Len(served[1].val.functions) = 1
    /\ Len(Flatten(served)) = 2
    /\ Len(ret.val) = 1

\* C3: no record of the accumulating collection has an empty env_vars mapping,
\* also for a descriptor whose environment configuration carries zero variables.
C3_NoRecordWithoutVariables ==
    \A i \in DOMAIN function_deets : DOMAIN function_deets[i].env_vars # {}

\* C6: with MY_TOKEN absent, main exits with status 1 after writing the
\* diagnostic to standard error, and no network activity ever occurs.
C6_MissingTokenExitsBeforeNetwork ==
    (env_token = "absent") =>
        /\ net = << >>
        /\ served = << >>
        /\ main_pc \in { "start", "exited" }
        /\ main_pc = "exited" =>
              /\ exit_code = 1
              /\ stderr = << "MY_TOKEN environment variable not set" >>
              /\ stdout = << >>

\* C6's case: the process has exited with MY_TOKEN absent.
C6_Witness == env_token = "absent" /\ main_pc = "exited"

\* C7: over error-free pages of which only the last lacks a continuation
\* marker, the lister issues exactly one request per page, each after the first
\* carrying the previous page's marker, none after the page without a marker,
\* and then returns.
C7_OneRequestPerPageThenReturns ==
    ~HasProviderError =>
        /\ Len(ListRequests) = Len(served)
        /\ \A i \in DOMAIN ListRequests :
              ListRequests[i].marker =
                 IF i = 1 THEN None ELSE served[i - 1].val.next_marker
        /\ \A i \in DOMAIN served : i < Len(served) => served[i].val.next_marker.some
        /\ pc \in { "done", "panicked" } =>
              /\ pc = "done"
              /\ served # << >>
              /\ ~served[Len(served)].val.next_marker.some

\* C8: a run in which a listing request failed never prints the report and
\* finishes with exit status 0; main terminates with a non-zero status and the
\* error printed.
C8_ListingFailureAbortsRun ==
    (main_pc = "exited" /\ HasProviderError) =>
        /\ exit_code # 0
        /\ stdout = << >>
        /\ stderr # << >>

\* C9: conversion of a retained descriptor always completes, whatever optional
\* fields are absent, and yields the record with the descriptor's name, its ARN
\* or the empty string, and its variable mapping.
C9_ConversionCompletes ==
    /\ pc # "panicked"
    /\ \A i \in DOMAIN results :
          \E d \in { Flatten(served)[j] : j \in DOMAIN Flatten(served) } :
             /\ Retained(d)
             /\ d.function_name = Some(results[i].name)
             /\ d.environment.val.variables = Some(results[i].env_vars)
             /\ results[i].arn = (IF d.function_arn = None THEN "" ELSE d.function_arn.val)

\* C10: conversion is sequential and the result is in provider order: at most
\* one conversion is in flight, the collection is only ever appended to, and the
\* returned sequence is the function of the page sequence given by
\* RecordsInOrder.
C10_InProviderOrder ==
    /\ Len(running) <= 1
    /\ IsPrefix(function_deets, RecordsInOrder(Flatten(served)))
    /\ pc = "done" => ret = Ok(RecordsInOrder(Flatten(served)))

C10_SequentialOrderPreserving ==
    /\ []C10_InProviderOrder
    /\ [][IsPrefix(function_deets, function_deets')]_vars

\* C10's case: two different records from two pages have been returned.
C10_Witness ==
    /\ pc = "done"
    /\ Len(served) >= 2
    /\ Len(served[1].val.functions) = 1
    /\ Len(ret.val) = 2
    /\ ret.val[1] # ret.val[2]

-----------------------------------------------------------------------------
\* Vocabulary of the version fetcher's properties

\* Which of the six outcomes a repository's response is.
Outcome(resp) ==
    IF ~resp.ok THEN "network_error"
    ELSE IF Len(resp.val.items) = 0 THEN "no_content_item"
    ELSE IF resp.val.items[1].content = None THEN "undecodable"
    ELSE IF ~ParseJson(resp.val.items[1].content.val.text).ok THEN "unparseable"
    ELSE IF "version" \in DOMAIN ParseJson(resp.val.items[1].content.val.text).val
         THEN "has_version"
    ELSE "no_version"

\* The `version` value of a response whose outcome is has_version.
VersionIn(resp) == ParseJson(resp.val.items[1].content.val.text).val["version"]

\* The repositories (by index) whose response has one of the given outcomes.
WithOutcome(kinds) == { i \in DOMAIN responses : Outcome(responses[i]) \in kinds }

FailureOutcomes == { "network_error", "no_content_item", "undecodable", "unparseable" }

\* The returned mapping holds exactly the repositories whose object has a
\* `version` field, each mapped to that value.
MappingIsVersions ==
    /\ f_ret.ok
    /\ DOMAIN f_ret.val = { Repositories[i] : i \in WithOutcome({"has_version"}) }
    /\ \A i \in WithOutcome({"has_version"}) :
          f_ret.val[Repositories[i]] = VersionIn(responses[i])

\* C4 as stated: fetch_packagejson_details never returns an error, whatever the
\* outcome of client construction and of the per-repository steps.
C4_NeverReturnsErr == f_pc = "returned" => f_ret.ok

\* C4 as amended: the call returns an error only when client construction
\* fails, and then before any request; once the client is built, every
\* per-repository failure is absorbed and the call returns Ok with the
\* accumulated mapping after all five repositories.
C4_ErrOnlyFromClientConstruction ==
    f_pc = "returned" =>
        /\ f_ret.ok <=> built
        /\ ~built => (net = << >> /\ responses = << >>)
        /\ built => /\ f_ret = Ok(package_json_details)
                    /\ Len(responses) = Len(Repositories)

\* C4's case: the client was built, every repository failed, the call returned.
C4_Witness ==
    /\ f_pc = "returned"
    /\ built
    /\ WithOutcome(FailureOutcomes) = DOMAIN Repositories
    /\ f_ret.ok

\* C5 as stated: the mapping holds exactly the repositories with a `version`
\* field, and exactly one diagnostic is logged for each repository omitted
\* from the mapping.
C5_OneDiagnosticPerOmittedRepository ==
    (f_pc = "returned" /\ built) =>
        /\ MappingIsVersions
        /\ Len(stdout) = Len(Repositories) - Cardinality(DOMAIN f_ret.val)

\* C5 as amended: the mapping holds exactly the repositories with a `version`
\* field, and exactly one diagnostic is logged, in order, for each repository
\* whose fetch, decode or parse failed; a repository whose object lacks
\* `version` is omitted without a diagnostic.
C5_OneDiagnosticPerFailedRepository ==
    (f_pc = "returned" /\ built) =>
        /\ MappingIsVersions
        /\ Len(stdout) = Cardinality(WithOutcome(FailureOutcomes))
        /\ \A j \in DOMAIN stdout :
              \E i \in WithOutcome(FailureOutcomes) :
                 /\ stdout[j].repo = Repositories[i]
                 /\ Cardinality({ k \in WithOutcome(FailureOutcomes) : k < i }) = j - 1

\* C5's case: one repository without `version`, one unparseable, one network
\* error and two valid: two entries and two diagnostics.
C5_Witness ==
    /\ f_pc = "returned"
    /\ built
    /\ Cardinality(WithOutcome({"no_version"})) = 1
    /\ Cardinality(WithOutcome({"unparseable"})) = 1
    /\ Cardinality(WithOutcome({"network_error"})) = 1
    /\ Cardinality(WithOutcome({"has_version"})) = 2
    /\ Cardinality(DOMAIN f_ret.val) = 2
    /\ Len(stdout) = 2

====
